---- MODULE Spec2Model ----
(***************************************************************************)
(* Model of the audiobook player front end: the page (HomePage), one       *)
(* AudioPlayer component instance with its useAudioPlayer hook, the        *)
(* <audio> element it drives, and the requests it has in flight at the     *)
(* API service.                                                            *)
(*                                                                         *)
(* Time is counted in ticks; TicksPerSecond ticks make one second.         *)
(* JavaScript numbers that can be non-finite (durations, seek arguments)   *)
(* are records [kind, val] with kind in {"fin","nan","posinf","neginf"}.   *)
(* Positions (audio.currentTime and the currentTime state) are always      *)
(* finite and are plain integers (ticks).                                  *)
(*                                                                         *)
(* React state written in a handler is rendered before the next event is   *)
(* handled, so a handler reads the state variables directly.               *)
(***************************************************************************)
EXTENDS Integers, Sequences, FiniteSets, TLC

\* ---------------------------------------------------------------- bounds
TicksPerSecond == 2
AssetDuration == 3
MaxAudiobooks == 2
MaxCalls == 2
MaxPending == 3
MaxUploads == 3

NoAudiobook == 0

\* ------------------------------------------------------- JavaScript numbers
Fin(n) == [kind |-> "fin", val |-> n]
NaN == [kind |-> "nan", val |-> 0]
PosInf == [kind |-> "posinf", val |-> 0]
NegInf == [kind |-> "neginf", val |-> 0]

isNaN(x) == x.kind = "nan"

IsFinite(x) == x.kind = "fin"

\* Math.min(a, b): NaN if either is NaN, else the smaller one
MathMin(a, b) ==
    IF isNaN(a) \/ isNaN(b) THEN NaN
    ELSE IF a.kind = "neginf" \/ b.kind = "neginf" THEN NegInf
    ELSE IF a.kind = "posinf" THEN b
    ELSE IF b.kind = "posinf" THEN a
    ELSE IF a.val <= b.val THEN a ELSE b

\* Math.max(a, b): NaN if either is NaN, else the larger one
MathMax(a, b) ==
    IF isNaN(a) \/ isNaN(b) THEN NaN
    ELSE IF a.kind = "posinf" \/ b.kind = "posinf" THEN PosInf
    ELSE IF a.kind = "neginf" THEN b
    ELSE IF b.kind = "neginf" THEN a
    ELSE IF a.val >= b.val THEN a ELSE b

\* (mutant) the lower clamp is missing
SeekTime_NoLowerClamp(time, audioDur) == MathMin(time, audioDur)

\* seekTime = Math.max(0, Math.min(time, audio.duration))
SeekTime(time, audioDur) == MathMax(Fin(0), MathMin(time, audioDur))

\* ------------------------------------------------------------------- state
VARIABLES
    currentAudiobook,      \* HomePage state: NoAudiobook or the audiobook id
    nextAudiobookId,       \* id the server gives to the next upload
    uploadInst,            \* identity of the AudioUpload instance
    isUploading,           \* useAudiobookUpload state
    error,                 \* useAudiobookUpload state: a message or NoError
    uploads,               \* apiService.uploadAudiobook calls not settled
    uploadCalls,           \* number of uploadAudiobook calls of the hook
    uploadLog,             \* the last uploadAudiobook call: its file and what
                           \* it has returned
    playerInst,            \* identity of the mounted AudioPlayer instance
    isPlaying,             \* useAudioPlayer state
    currentTime,           \* useAudioPlayer state (ticks)
    duration,              \* useAudioPlayer state (JS number)
    isLoading,             \* useAudioPlayer state
    isGeneratingImage,     \* AudioPlayer state
    generatedImages,       \* AudioPlayer state: sequence of images
    audioDuration,         \* <audio>.duration (JS number)
    audioCurrentTime,      \* <audio>.currentTime (ticks)
    audioPaused,           \* <audio>.paused
    audioSeeking,          \* <audio>.seeking
    pendingEvents,         \* media events queued by the element, in order
    listeners,             \* the element the hook's handlers are registered
                           \* on: the key of its <audio>, or NoElement
    inflight,              \* API requests that have not settled
    serverImages,          \* images stored by the server, in creation order
    apiCalls,              \* number of apiService.generateImage calls
    alerts,                \* number of 'Failed to generate image' alerts
    onImageGeneratedCalls, \* number of times onImageGenerated?.() was reached
    seekLog,               \* console record of the last seekTo call
    ignoredGenerates,      \* Generate clicks that returned early while a
                           \* request was in flight
    clickLog               \* the last click on an image marker: the image's
                           \* timestamp and the arguments of the seekTo calls
                           \* the click led to, in order

playerVars == <<playerInst, isPlaying, currentTime, duration, isLoading,
                isGeneratingImage, generatedImages>>
audioVars == <<audioDuration, audioCurrentTime, audioPaused, audioSeeking,
               pendingEvents>>
pageVars == <<currentAudiobook, nextAudiobookId>>
uploadVars == <<uploadInst, isUploading, error, uploads, uploadCalls,
                uploadLog>>
netVars == <<inflight, serverImages, apiCalls, alerts, onImageGeneratedCalls>>
vars == <<pageVars, uploadVars, playerVars, audioVars, listeners, netVars,
          seekLog,
          ignoredGenerates, clickLog>>

Mounted == currentAudiobook # NoAudiobook

NoElement == 0

NoError == "null"

\* <audio key={audiobook.id} ref={audioRef}>: the element rendered
AudioElement == currentAudiobook

NoSeek ==
    [called |-> FALSE, time |-> NaN, duration |-> NaN, before |-> 0,
     after |-> 0]

\* strings the code looks into are sequences of characters
NoFile == [type |-> <<>>, name |-> <<>>]

NoUpload == [call |-> 0, file |-> NoFile, result |-> "none"]

NoClick == [clicked |-> FALSE, timestamp |-> 0, seeks |-> <<>>]

Init ==
    /\ currentAudiobook = NoAudiobook
    /\ nextAudiobookId = 1
    /\ uploadInst = 1
    /\ isUploading = FALSE
    /\ error = NoError
    /\ uploads = {}
    /\ uploadCalls = 0
    /\ uploadLog = NoUpload
    /\ playerInst = 0
    /\ isPlaying = FALSE
    /\ currentTime = 0
    /\ duration = Fin(0)
    /\ isLoading = FALSE
    /\ isGeneratingImage = FALSE
    /\ generatedImages = <<>>
    /\ audioDuration = NaN
    /\ audioCurrentTime = 0
    /\ audioPaused = TRUE
    /\ audioSeeking = FALSE
    /\ pendingEvents = <<>>
    /\ listeners = NoElement
    /\ inflight = {}
    /\ serverImages = <<>>
    /\ apiCalls = 0
    /\ alerts = 0
    /\ onImageGeneratedCalls = 0
    /\ seekLog = NoSeek
    /\ ignoredGenerates = {}
    /\ clickLog = NoClick

\* ------------------------------------------------------------ API service
\* ApiService.handleResponse: throws unless response.ok; a fetch that
\* rejects (network error) throws as well
HandleResponse(outcome) == IF outcome = "ok" THEN "return" ELSE "throw"

Outcomes == {"ok", "not_ok", "network_error"}

\* the image the server creates for generateImage(audiobookId, timestamp)
ServerImage(audiobookId, timestamp) ==
    [id |-> Len(serverImages) + 1,
     audiobook_id |-> audiobookId,
     timestamp_seconds |-> timestamp]

\* the images the server holds for one audiobook, in creation order
ImagesOf(audiobookId) ==
    SelectSeq(serverImages, LAMBDA i : i.audiobook_id = audiobookId)

\* requests in flight: the call number tells apart two calls of
\* apiService.generateImage with the same arguments
GenerateRequest(inst, audiobookId, timestamp) ==
    [kind |-> "generate", call |-> apiCalls + 1, inst |-> inst,
     audiobook_id |-> audiobookId, timestamp |-> timestamp]

FetchRequest(inst, audiobookId) ==
    [kind |-> "fetch", call |-> 0, inst |-> inst,
     audiobook_id |-> audiobookId, timestamp |-> 0]

\* a state setter of a component instance only has an effect while that
\* instance is the mounted one
IsMountedInstance(r) == Mounted /\ r.inst = playerInst

\* --------------------------------------------------------------- HomePage
\* (mutant) the player instance is kept across audiobooks
NewInstance_Reused(inst) == inst

\* every mount of AudioPlayer is a new instance with fresh state
NewInstance(inst) == inst + 1

\* useEffect(..., []) runs once after the mount and registers the handlers
\* on audioRef.current
ListenersAfterMount(element) == element

\* (mutant) the cleanup leaves the handlers on the element
ListenersAfterCleanup_Kept(registered) == registered

\* the cleanup of the effect calls removeEventListener for every handler
ListenersAfterCleanup(registered) == NoElement

\* setCurrentAudiobook(response.audiobook).  With the upload form shown, the
\* page mounts a new AudioPlayer: its fetchImages effect runs and its <audio>
\* element starts to load its src.  With a player shown already, that player
\* is rendered again for the other audiobook: it keeps its state and its
\* handlers stay where they are, the <audio> element is replaced because its
\* key changes, and the fetchImages effect runs again.
ShowAudiobook(id) ==
    /\ currentAudiobook' = id
    /\ IF ~Mounted
       THEN /\ playerInst' = NewInstance(playerInst)
            /\ isPlaying' = FALSE
            /\ currentTime' = 0
            /\ duration' = Fin(0)
            /\ isLoading' = FALSE
            /\ isGeneratingImage' = FALSE
            /\ generatedImages' = <<>>
            /\ listeners' = ListenersAfterMount(id)
            /\ inflight' = inflight \cup
                             {FetchRequest(NewInstance(playerInst), id)}
       ELSE /\ UNCHANGED <<playerVars, listeners>>
            /\ inflight' = inflight \cup {FetchRequest(playerInst, id)}
    /\ audioDuration' = NaN
    /\ audioCurrentTime' = 0
    /\ audioPaused' = TRUE
    /\ audioSeeking' = FALSE
    /\ pendingEvents' = <<"loadstart">>

\* AudioUpload reports a finished upload; the page shows the player.
handleUploadSuccess ==
    /\ ~Mounted
    /\ nextAudiobookId <= MaxAudiobooks
    /\ nextAudiobookId' = nextAudiobookId + 1
    /\ ShowAudiobook(nextAudiobookId)
    /\ UNCHANGED <<uploadVars, serverImages, apiCalls, alerts,
                   onImageGeneratedCalls, seekLog, ignoredGenerates, clickLog>>

\* 'Upload New Audiobook': the player is unmounted and the cleanup of the
\* hook's effect runs; its state and its <audio> element are gone, but the
\* events the element has queued are still delivered, and requests already
\* sent stay in flight.  A new AudioUpload is mounted.
handleNewUpload ==
    /\ Mounted
    /\ currentAudiobook' = NoAudiobook
    /\ isPlaying' = FALSE
    /\ currentTime' = 0
    /\ duration' = Fin(0)
    /\ isLoading' = FALSE
    /\ isGeneratingImage' = FALSE
    /\ generatedImages' = <<>>
    /\ audioDuration' = NaN
    /\ audioCurrentTime' = 0
    /\ audioPaused' = TRUE
    /\ audioSeeking' = FALSE
    /\ listeners' = ListenersAfterCleanup(listeners)
    /\ ignoredGenerates' = {}
    /\ uploadInst' = uploadInst + 1
    /\ isUploading' = FALSE
    /\ error' = NoError
    /\ UNCHANGED <<nextAudiobookId, uploads, uploadCalls, uploadLog,
                   playerInst, pendingEvents, netVars, seekLog,
                   clickLog>>

\* an event queued by the element of a player that has been unmounted is
\* delivered: a handler still registered would call the state setters of the
\* unmounted instance, which have no effect
EventAfterTeardown ==
    /\ ~Mounted
    /\ pendingEvents # <<>>
    /\ pendingEvents' = Tail(pendingEvents)
    /\ UNCHANGED <<pageVars, uploadVars, playerVars, audioDuration,
                   audioCurrentTime, audioPaused, audioSeeking, listeners,
                   netVars, seekLog, ignoredGenerates, clickLog>>

\* ------------------------------------------- AudioUpload, useAudiobookUpload
\* the upload form is shown whenever no player is
UploadShown == ~Mounted

InvalidFileType == "Invalid file type. Please upload an M4A file."

UploadFailed == "Upload failed"

UploadRequest(via) ==
    [call |-> uploadCalls + 1, inst |-> uploadInst, via |-> via]

\* String.prototype.includes
Includes(str, sub) ==
    \E i \in 1..(Len(str) - Len(sub) + 1) :
        SubSeq(str, i, i + Len(sub) - 1) = sub

\* String.prototype.endsWith
EndsWith(str, suffix) ==
    /\ Len(str) >= Len(suffix)
    /\ SubSeq(str, Len(str) - Len(suffix) + 1, Len(str)) = suffix

LowerCaseOf(c) ==
    CASE c = "A" -> "a"
      [] c = "M" -> "m"
      [] c = "P" -> "p"
      [] OTHER -> c

\* String.prototype.toLowerCase
ToLowerCase(str) == [i \in 1..Len(str) |-> LowerCaseOf(str[i])]

\* files a listener may choose: MIME types as browsers report them and
\* names with and without the m4a extension
FileTypes ==
    {<<"a", "u", "d", "i", "o", "/", "m", "p", "4">>,
     <<"a", "u", "d", "i", "o", "/", "x", "-", "m", "4", "a">>,
     <<"a", "u", "d", "i", "o", "/", "m", "p", "e", "g">>,
     <<>>}

FileNames ==
    {<<"a", ".", "m", "4", "a">>,
     <<"A", ".", "M", "4", "A">>,
     <<"a", ".", "m", "p", "3">>,
     <<"m", "4", "a">>}

Files == [type : FileTypes, name : FileNames]

\* (mutant) every file is sent to the server
ThrowsInvalidFileType_Never(file) == FALSE

\* if (!file.type.includes('mp4')
\*     && !file.name.toLowerCase().endsWith('.m4a')) throw ...
ThrowsInvalidFileType(file) ==
    /\ ~Includes(file.type, <<"m", "p", "4">>)
    /\ ~EndsWith(ToLowerCase(file.name), <<".", "m", "4", "a">>)

\* uploadAudiobook(file, stylePrompt) up to its await.  A file that is
\* neither of an mp4 type nor named *.m4a throws inside the try block: the
\* catch and finally blocks run at once, no request is sent and the call
\* returns null.
uploadAudiobook(file, via) ==
    /\ UploadShown
    /\ uploadCalls < MaxUploads
    /\ uploadCalls' = uploadCalls + 1
    /\ IF ~ThrowsInvalidFileType(file)
       THEN /\ isUploading' = TRUE
            /\ error' = NoError
            /\ uploads' = uploads \cup {UploadRequest(via)}
            /\ uploadLog' = [call |-> uploadCalls + 1, file |-> file,
                             result |-> "pending"]
       ELSE /\ isUploading' = FALSE
            /\ error' = InvalidFileType
            /\ uploads' = uploads
            /\ uploadLog' = [call |-> uploadCalls + 1, file |-> file,
                             result |-> "null"]
    /\ UNCHANGED <<pageVars, uploadInst, playerVars, audioVars, listeners,
                   netVars, seekLog, ignoredGenerates, clickLog>>

\* isFormValid = file && stylePrompt.trim() && !isUploading, with a file
\* chosen and a prompt typed
isFormValid == ~isUploading

\* the form is submitted: <Button type="submit" disabled={!isFormValid}>
handleSubmit ==
    /\ isFormValid
    /\ \E file \in Files : uploadAudiobook(file, "form")

\* uploadAudiobook called by a consumer of the hook that does not wait for
\* isUploading; AudioUpload itself calls it from handleSubmit only
uploadAudiobookCall ==
    \E file \in Files : uploadAudiobook(file, "hook")

\* finally { setIsUploading(false) }
UploadingAfterSettle(outcome) == FALSE

\* apiService.uploadAudiobook settles and uploadAudiobook resumes: catch on
\* failure, then finally; the setters act on the AudioUpload that made the
\* call, if it is still mounted.  After a response handleSubmit calls
\* onUploadSuccess, and the page shows the audiobook the server created.
uploadAudiobookSettles(u, outcome) ==
    /\ u \in uploads
    /\ uploads' = uploads \ {u}
    /\ LET ok == HandleResponse(outcome) = "return"
           live == UploadShown /\ u.inst = uploadInst
       IN  /\ ok => nextAudiobookId <= MaxAudiobooks
           /\ nextAudiobookId' =
                IF ok THEN nextAudiobookId + 1 ELSE nextAudiobookId
           /\ IF ok /\ u.via = "form"
              THEN /\ ShowAudiobook(nextAudiobookId)
                   /\ isUploading' = FALSE
                   /\ error' = NoError
              ELSE /\ isUploading' =
                        IF live THEN UploadingAfterSettle(outcome)
                        ELSE isUploading
                   /\ error' = IF live /\ ~ok THEN UploadFailed ELSE error
                   /\ UNCHANGED <<currentAudiobook, playerVars, audioVars,
                                  listeners, inflight>>
    /\ UNCHANGED <<uploadInst, uploadCalls, uploadLog, serverImages, apiCalls,
                   alerts, onImageGeneratedCalls, seekLog, ignoredGenerates, clickLog>>

\* ------------------------------------------------------------ AudioPlayer
\* fetchImages settles: setGeneratedImages(audiobookWithImages.images || [])
\* on success, console.error on failure.  The response holds the images the
\* server had for the audiobook when it answered: a prefix of those it has
\* now.
fetchImagesSettles(r, outcome, n) ==
    /\ r \in inflight
    /\ r.kind = "fetch"
    /\ n \in 0..Len(ImagesOf(r.audiobook_id))
    /\ inflight' = inflight \ {r}
    /\ generatedImages' =
         IF HandleResponse(outcome) = "return" /\ IsMountedInstance(r)
         THEN SubSeq(ImagesOf(r.audiobook_id), 1, n)
         ELSE generatedImages
    /\ UNCHANGED <<pageVars, uploadVars, listeners, playerInst, isPlaying, currentTime, duration,
                   isLoading, isGeneratingImage, audioVars, serverImages,
                   apiCalls, alerts, onImageGeneratedCalls, seekLog,
                   ignoredGenerates, clickLog>>

\* <Button disabled={isLoading || isGeneratingImage || currentTime === 0}>
GenerateDisabled == isLoading \/ isGeneratingImage \/ currentTime = 0

\* if (isGeneratingImage || currentTime === 0) return;
GenerateReturnsEarly == isGeneratingImage \/ currentTime = 0

\* (mutant) the in-flight flag is not raised
GeneratingAfterSubmit_NotSet == FALSE

\* setIsGeneratingImage(true)
GeneratingAfterSubmit == TRUE

\* (mutant) the timestamp is read from the element, not from the state
RequestTimestamp_Device == audioCurrentTime

\* the timestamp handed to apiService.generateImage: the currentTime state
RequestTimestamp == currentTime

\* click on 'Generate Image' up to the await of apiService.generateImage
handleGenerateImage ==
    /\ Mounted
    /\ ~GenerateDisabled
    /\ ~GenerateReturnsEarly
    /\ apiCalls < MaxCalls
    /\ isGeneratingImage' = GeneratingAfterSubmit
    /\ inflight' = inflight \cup
         {GenerateRequest(playerInst, currentAudiobook, RequestTimestamp)}
    /\ apiCalls' = apiCalls + 1
    /\ ignoredGenerates' =
         {g \in ignoredGenerates : g.timestamp # RequestTimestamp}
    /\ UNCHANGED <<pageVars, uploadVars, listeners, playerInst, isPlaying, currentTime, duration,
                   isLoading, generatedImages, audioVars, serverImages,
                   alerts, onImageGeneratedCalls, seekLog, clickLog>>

\* click on 'Generate Image' while a request of this player is in flight:
\* the handler returns at its first line and nothing is kept of the click.
\* ignoredGenerates records the position asked for and the timestamp of the
\* request that was in flight.
handleGenerateImageIgnored ==
    /\ Mounted
    /\ isGeneratingImage
    /\ currentTime # 0
    /\ GenerateReturnsEarly
    /\ \E r \in inflight :
         /\ r.kind = "generate"
         /\ r.inst = playerInst
         /\ r.timestamp # currentTime
         /\ ignoredGenerates' =
              ignoredGenerates \cup
                {[timestamp |-> currentTime, during |-> r.timestamp]}
    /\ ignoredGenerates' # ignoredGenerates
    /\ UNCHANGED <<pageVars, uploadVars, listeners, playerVars, audioVars,
                   netVars, seekLog, clickLog>>

\* setGeneratedImages(prev => [...prev, newImage])
AddImage(prev, newImage) == Append(prev, newImage)

\* (mutant) the image is registered before the response is checked
SettledImages_Partial(prev, r, outcome) ==
    AddImage(prev, ServerImage(r.audiobook_id, r.timestamp))

\* the images after the request settled: the try body appends the new image,
\* the catch block leaves the list alone
SettledImages(prev, r, outcome) ==
    IF HandleResponse(outcome) = "return"
    THEN AddImage(prev, ServerImage(r.audiobook_id, r.timestamp))
    ELSE prev

\* (mutant) the flag is cleared on success only
GeneratingAfterSettle_TryOnly(outcome) == HandleResponse(outcome) = "throw"

\* finally { setIsGeneratingImage(false) }
GeneratingAfterSettle(outcome) == FALSE

\* (mutant) a failed call is sent again
CallsAfterSettle_Retry(outcome) ==
    IF HandleResponse(outcome) = "throw" /\ apiCalls < MaxCalls
    THEN apiCalls + 1
    ELSE apiCalls

\* apiService.generateImage does one fetch; nothing is sent when it settles
CallsAfterSettle(outcome) == apiCalls

\* apiService.generateImage settles and handleGenerateImage resumes:
\* the try body on success, the catch block on failure, then finally.
\* The function runs to its end after an unmount too; only the state
\* setters have no effect then.
generateImageSettles(r, outcome) ==
    /\ r \in inflight
    /\ r.kind = "generate"
    /\ inflight' = inflight \ {r}
    /\ apiCalls' = CallsAfterSettle(outcome)
    /\ IF HandleResponse(outcome) = "return"
       THEN /\ serverImages' =
                 Append(serverImages, ServerImage(r.audiobook_id, r.timestamp))
            /\ onImageGeneratedCalls' = onImageGeneratedCalls + 1
            /\ alerts' = alerts
       ELSE /\ alerts' = alerts + 1
            /\ UNCHANGED <<serverImages, onImageGeneratedCalls>>
    /\ IF IsMountedInstance(r)
       THEN /\ generatedImages' = SettledImages(generatedImages, r, outcome)
            /\ isGeneratingImage' = GeneratingAfterSettle(outcome)
       ELSE UNCHANGED <<generatedImages, isGeneratingImage>>
    /\ UNCHANGED <<pageVars, uploadVars, listeners, playerInst, isPlaying, currentTime, duration,
                   isLoading, audioVars, seekLog,
                   ignoredGenerates, clickLog>>

\* ------------------------------------------------- useAudioPlayer: requests
\* room left in the element's event queue
CanQueue(n) == Len(pendingEvents) + n <= MaxPending

\* seekTo(time).  Assigning a non-finite value to audio.currentTime throws a
\* TypeError, which the try/catch swallows; a finite value moves the element
\* and starts a seek.
seekTo(time) ==
    /\ Mounted
    /\ CanQueue(1)
    /\ IF ~isNaN(audioDuration) /\ IsFinite(SeekTime(time, audioDuration))
       THEN /\ audioCurrentTime' = SeekTime(time, audioDuration).val
            /\ audioSeeking' = TRUE
            /\ pendingEvents' = Append(pendingEvents, "seeking")
       ELSE UNCHANGED <<audioCurrentTime, audioSeeking, pendingEvents>>
    /\ UNCHANGED <<pageVars, uploadVars, listeners, playerVars, audioDuration, audioPaused, netVars>>

\* arguments a consumer of the hook may pass to seekTo
SeekInputs ==
    {NaN, PosInf, NegInf, Fin(0 - 5 * TicksPerSecond),
     Fin(AssetDuration + 100 * TicksPerSecond)}
      \cup {Fin(t) : t \in 0..AssetDuration}

\* seekTo called by a consumer of the hook with any argument; seekLog keeps
\* the argument, audio.duration at the call and the position the element
\* had before and after it
seekToCall ==
    \E time \in SeekInputs :
        /\ seekTo(time)
        /\ seekLog' = [called |-> TRUE, time |-> time,
                       duration |-> audioDuration,
                       before |-> audioCurrentTime,
                       after |-> audioCurrentTime']
        /\ UNCHANGED <<ignoredGenerates, clickLog>>

\* newTime = clickRatio * duration, for a click at k/AssetDuration of the bar
NewTime(k) ==
    IF IsFinite(duration) THEN Fin((k * duration.val) \div AssetDuration)
    ELSE duration

handleProgressClick ==
    /\ \E k \in 0..AssetDuration : seekTo(NewTime(k))
    /\ UNCHANGED <<seekLog, ignoredGenerates, clickLog>>

\* click on a marker or a gallery entry
handleImageClick ==
    /\ \E i \in 1..Len(generatedImages) :
           seekTo(Fin(generatedImages[i].timestamp_seconds))
    /\ UNCHANGED <<seekLog, ignoredGenerates, clickLog>>

\* the <audio> element after the seekTo calls of one event handler run, in
\* order: each call that passes the guard of seekTo and writes a finite time
\* moves the element and starts a seek
seekToEach(times) ==
    LET moves ==
          SelectSeq(times,
                    LAMBDA time : /\ ~isNaN(audioDuration)
                                  /\ IsFinite(SeekTime(time, audioDuration)))
    IN  /\ Mounted
        /\ CanQueue(Len(times))
        /\ IF moves # <<>>
           THEN /\ audioCurrentTime' =
                     SeekTime(moves[Len(moves)], audioDuration).val
                /\ audioSeeking' = TRUE
                /\ pendingEvents' =
                     pendingEvents \o [i \in 1..Len(moves) |-> "seeking"]
           ELSE UNCHANGED <<audioCurrentTime, audioSeeking, pendingEvents>>
        /\ UNCHANGED <<pageVars, uploadVars, listeners, playerVars,
                       audioDuration, audioPaused, netVars>>

\* markerPosition = duration > 0 ? (timestamp_seconds / duration) * 100 : 0,
\* as a position k/AssetDuration of the bar
MarkerPosition(timestamp) ==
    IF IsFinite(duration) /\ duration.val > 0
    THEN (timestamp * AssetDuration) \div duration.val
    ELSE 0

\* (mutant) the click bubbles from the marker to the progress bar
ClickPropagates_Bubbles == TRUE

\* e.stopPropagation() in the marker's onClick
ClickPropagates == FALSE

\* click on the marker of an image: the marker's onClick runs
\* handleImageClick(image.timestamp_seconds); a click that propagates goes on
\* to the onClick of the enclosing progress bar, handleProgressClick, with
\* the position of the marker
markerClick ==
    \E i \in 1..Len(generatedImages) :
        LET timestamp == generatedImages[i].timestamp_seconds
            times ==
              <<Fin(timestamp)>> \o
                (IF ClickPropagates
                 THEN <<NewTime(MarkerPosition(timestamp))>>
                 ELSE <<>>)
        IN  /\ seekToEach(times)
            /\ clickLog' = [clicked |-> TRUE, timestamp |-> timestamp,
                            seeks |-> times]
            /\ UNCHANGED <<seekLog, ignoredGenerates>>

\* audio.play(): a paused element starts playing; one that has ended first
\* seeks back to the start
AtEnd == IsFinite(audioDuration) /\ audioCurrentTime = audioDuration.val

play ==
    /\ Mounted
    /\ CanQueue(2)
    /\ isPlaying' = TRUE
    /\ audioPaused' = FALSE
    /\ audioCurrentTime' = IF AtEnd THEN 0 ELSE audioCurrentTime
    /\ audioSeeking' = (AtEnd \/ audioSeeking)
    /\ pendingEvents' =
         pendingEvents \o (IF AtEnd THEN <<"seeking">> ELSE <<>>)
                       \o (IF audioPaused THEN <<"play">> ELSE <<>>)
    /\ UNCHANGED <<pageVars, uploadVars, listeners, playerInst, currentTime, duration, isLoading,
                   isGeneratingImage, generatedImages, audioDuration, netVars,
                   seekLog,
                   ignoredGenerates, clickLog>>

\* play() when the element refuses to start (the browser blocks playback that
\* no user gesture asked for, or the source cannot be played): audio.play()
\* returns a promise that rejects, the element stays paused and fires no
\* event; the promise is dropped and setIsPlaying(true) runs
playRejected ==
    /\ Mounted
    /\ audioPaused
    /\ isPlaying' = TRUE
    /\ UNCHANGED <<pageVars, uploadVars, listeners, playerInst, currentTime, duration,
                   isLoading, isGeneratingImage, generatedImages, audioVars,
                   netVars, seekLog, ignoredGenerates, clickLog>>

\* audio.pause()
pause ==
    /\ Mounted
    /\ CanQueue(2)
    /\ isPlaying' = FALSE
    /\ audioPaused' = TRUE
    /\ pendingEvents' =
         pendingEvents \o
           (IF audioPaused THEN <<>> ELSE <<"timeupdate", "pause">>)
    /\ UNCHANGED <<pageVars, uploadVars, listeners, playerInst, currentTime, duration, isLoading,
                   isGeneratingImage, generatedImages, audioDuration,
                   audioCurrentTime, audioSeeking, netVars, seekLog,
                   ignoredGenerates, clickLog>>

\* (mutant) the play/pause button waits for the generation request
TogglePlayDisabled_WhileGenerating == isLoading \/ isGeneratingImage

\* <Button onClick={togglePlay} disabled={isLoading}>
TogglePlayDisabled == isLoading

\* the play/pause button
togglePlay ==
    /\ ~TogglePlayDisabled
    /\ IF isPlaying THEN pause ELSE play

\* ---------------------------------------------------- the <audio> element
\* metadata and first data arrive
DeviceLoads ==
    /\ Mounted
    /\ isNaN(audioDuration)
    /\ CanQueue(3)
    /\ audioDuration' = Fin(AssetDuration)
    /\ pendingEvents' =
         pendingEvents \o <<"durationchange", "canplay", "canplaythrough">>
    /\ UNCHANGED <<pageVars, uploadVars, listeners, playerVars, audioCurrentTime, audioPaused,
                   audioSeeking, netVars, seekLog,
                   ignoredGenerates, clickLog>>

\* playback moves on by one tick; at the end the element pauses and ends
DeviceAdvances ==
    /\ Mounted
    /\ ~audioPaused
    /\ ~audioSeeking
    /\ IsFinite(audioDuration)
    /\ audioCurrentTime < audioDuration.val
    /\ CanQueue(3)
    /\ audioCurrentTime' = audioCurrentTime + 1
    /\ IF audioCurrentTime + 1 = audioDuration.val
       THEN /\ audioPaused' = TRUE
            /\ pendingEvents' =
                 pendingEvents \o <<"timeupdate", "pause", "ended">>
       ELSE /\ audioPaused' = audioPaused
            /\ pendingEvents' = Append(pendingEvents, "timeupdate")
    /\ UNCHANGED <<pageVars, uploadVars, listeners, playerVars, audioDuration, audioSeeking, netVars,
                   seekLog,
                   ignoredGenerates, clickLog>>

\* the element reaches the position it was asked to seek to
DeviceSeekCompletes ==
    /\ Mounted
    /\ audioSeeking
    /\ CanQueue(2)
    /\ audioSeeking' = FALSE
    /\ pendingEvents' = pendingEvents \o <<"timeupdate", "seeked">>
    /\ UNCHANGED <<pageVars, uploadVars, listeners, playerVars, audioDuration, audioCurrentTime,
                   audioPaused, netVars, seekLog,
                   ignoredGenerates, clickLog>>

\* playback runs out of data and recovers
DeviceStalls ==
    /\ Mounted
    /\ ~audioPaused
    /\ IsFinite(audioDuration)
    /\ CanQueue(2)
    /\ pendingEvents' = pendingEvents \o <<"waiting", "canplay">>
    /\ UNCHANGED <<pageVars, uploadVars, listeners, playerVars, audioDuration, audioCurrentTime,
                   audioPaused, audioSeeking, netVars, seekLog,
                   ignoredGenerates, clickLog>>

\* ------------------------------------------- useAudioPlayer: event handlers
\* the next queued event is `e' and its handler is registered on the
\* element; it is taken from the queue
Dispatch(e) ==
    /\ Mounted
    /\ listeners = AudioElement
    /\ pendingEvents # <<>>
    /\ Head(pendingEvents) = e
    /\ pendingEvents' = Tail(pendingEvents)
    /\ UNCHANGED <<pageVars, uploadVars, listeners, playerInst, isGeneratingImage, generatedImages,
                   audioDuration, audioCurrentTime, audioPaused, audioSeeking,
                   netVars, seekLog,
                   ignoredGenerates, clickLog>>

handleTimeUpdate ==
    /\ Dispatch("timeupdate")
    /\ currentTime' = audioCurrentTime
    /\ UNCHANGED <<isPlaying, duration, isLoading>>

handleDurationChange ==
    /\ Dispatch("durationchange")
    /\ duration' = audioDuration
    /\ UNCHANGED <<isPlaying, currentTime, isLoading>>

handleLoadStart ==
    /\ Dispatch("loadstart")
    /\ isLoading' = TRUE
    /\ UNCHANGED <<isPlaying, currentTime, duration>>

handleCanPlay ==
    /\ Dispatch("canplay")
    /\ isLoading' = FALSE
    /\ UNCHANGED <<isPlaying, currentTime, duration>>

handleCanPlayThrough ==
    /\ Dispatch("canplaythrough")
    /\ isLoading' = FALSE
    /\ UNCHANGED <<isPlaying, currentTime, duration>>

handleEnded ==
    /\ Dispatch("ended")
    /\ isPlaying' = FALSE
    /\ UNCHANGED <<currentTime, duration, isLoading>>

handlePlay ==
    /\ Dispatch("play")
    /\ isPlaying' = TRUE
    /\ UNCHANGED <<currentTime, duration, isLoading>>

handlePause ==
    /\ Dispatch("pause")
    /\ isPlaying' = FALSE
    /\ UNCHANGED <<currentTime, duration, isLoading>>

handleWaiting ==
    /\ Dispatch("waiting")
    /\ isLoading' = TRUE
    /\ UNCHANGED <<isPlaying, currentTime, duration>>

handleSeeking ==
    /\ Dispatch("seeking")
    /\ isLoading' = TRUE
    /\ UNCHANGED <<isPlaying, currentTime, duration>>

handleSeeked ==
    /\ Dispatch("seeked")
    /\ isLoading' = FALSE
    /\ UNCHANGED <<isPlaying, currentTime, duration>>

\* ----------------------------------------------------------- specification
PageStep ==
    \/ handleUploadSuccess
    \/ handleNewUpload

GenerationStep ==
    \/ \E r \in inflight, outcome \in Outcomes :
         \E n \in 0..Len(serverImages) : fetchImagesSettles(r, outcome, n)
    \/ handleGenerateImage
    \/ \E r \in inflight, outcome \in Outcomes : generateImageSettles(r, outcome)

PlaybackStep ==
    \/ togglePlay
    \/ DeviceLoads
    \/ DeviceAdvances
    \/ DeviceSeekCompletes
    \/ handleTimeUpdate
    \/ handleDurationChange
    \/ handleLoadStart
    \/ handleCanPlay
    \/ handleCanPlayThrough
    \/ handleEnded
    \/ handlePlay
    \/ handlePause
    \/ handleSeeked
    \/ handleSeeking

UploadStep ==
    \/ handleSubmit
    \/ uploadAudiobookCall
    \/ \E u \in uploads, outcome \in Outcomes :
         uploadAudiobookSettles(u, outcome)

\* the whole program.  Its state space is the product of the parts below;
\* the properties are checked under the specifications of the parts.
Next ==
    \/ PageStep
    \/ GenerationStep
    \/ PlaybackStep
    \/ handleProgressClick
    \/ handleImageClick
    \/ seekToCall
    \/ DeviceStalls
    \/ handleWaiting
    \/ handleGenerateImageIgnored
    \/ EventAfterTeardown
    \/ playRejected
    \/ UploadStep
    \/ markerClick

Spec == Init /\ [][Next]_vars

\* the page, the generation requests and playback without seeks and stalls
NextGenerate ==
    \/ PageStep
    \/ GenerationStep
    \/ PlaybackStep

SpecGenerate == Init /\ [][NextGenerate]_vars

\* one player and its hook: playback, stalls and seekTo with any argument
NextPlayback ==
    \/ handleUploadSuccess
    \/ PlaybackStep
    \/ handleProgressClick
    \/ seekToCall
    \/ DeviceStalls
    \/ handleWaiting

SpecPlayback == Init /\ [][NextPlayback]_vars

\* one player: its generation requests while the listener plays and seeks
NextSeekGenerate ==
    \/ handleUploadSuccess
    \/ GenerationStep
    \/ PlaybackStep
    \/ handleProgressClick
    \/ handleImageClick

SpecSeekGenerate == Init /\ [][NextSeekGenerate]_vars

\* players mounted and unmounted while their elements play
NextTeardown ==
    \/ PageStep
    \/ PlaybackStep
    \/ handleProgressClick
    \/ EventAfterTeardown

SpecTeardown == Init /\ [][NextTeardown]_vars

\* one player whose element may refuse to play
NextPlayRejected ==
    \/ handleUploadSuccess
    \/ PlaybackStep
    \/ handleProgressClick
    \/ playRejected

SpecPlayRejected == Init /\ [][NextPlayRejected]_vars

\* the upload form and its hook, the page, and the player loading
NextUpload ==
    \/ UploadStep
    \/ handleNewUpload
    \/ DeviceLoads
    \/ handleLoadStart
    \/ handleDurationChange
    \/ handleCanPlay
    \/ handleCanPlayThrough

SpecUpload == Init /\ [][NextUpload]_vars

\* one player: images are generated and their markers clicked
NextMarker ==
    \/ handleUploadSuccess
    \/ GenerationStep
    \/ PlaybackStep
    \/ markerClick

SpecMarker == Init /\ [][NextMarker]_vars

\* one player: Generate pressed again while a request is in flight
NextGenerateAgain ==
    \/ handleUploadSuccess
    \/ GenerationStep
    \/ PlaybackStep
    \/ handleGenerateImageIgnored

SpecGenerateAgain == Init /\ [][NextGenerateAgain]_vars

\* ------------------------------------------------------------------ claims
GenerateRequests == {r \in inflight : r.kind = "generate"}

\* Math.round of a time in ticks to whole seconds
RoundedTimestamp(t) == (2 * t + TicksPerSecond) \div (2 * TicksPerSecond)

SameMoment(t1, t2) == RoundedTimestamp(t1) = RoundedTimestamp(t2)

AtMostOnePipeline ==
    \A r1, r2 \in GenerateRequests :
        (r1.audiobook_id = r2.audiobook_id
           /\ SameMoment(r1.timestamp, r2.timestamp)) => r1 = r2

SameMomentInFlight ==
    \E r \in GenerateRequests :
        /\ r.audiobook_id = currentAudiobook
        /\ SameMoment(r.timestamp, currentTime)

\* C1 (dedup): at most one generation request per (audiobook, timestamp
\* rounded to a second) is in flight at any time, and no step taken while a
\* request for the current audiobook and the current rounded position is in
\* flight calls apiService.generateImage.
C1_Dedup ==
    /\ []AtMostOnePipeline
    /\ [][SameMomentInFlight => apiCalls' = apiCalls]_vars

\* a request is in flight for the position the listener is still at, and
\* only the in-flight flag keeps the Generate button disabled
C1_Witness ==
    /\ SameMomentInFlight
    /\ isGeneratingImage
    /\ ~isLoading
    /\ currentTime # 0
    /\ apiCalls < MaxCalls

Timestamps == [i \in 1..Len(generatedImages) |->
                 generatedImages[i].timestamp_seconds]

\* C2 (sort invariant): the images held for the audiobook are sorted
\* ascending by timestamp_seconds in every reachable state.
C2_SortInvariant ==
    \A i, j \in 1..Len(generatedImages) :
        i < j => Timestamps[i] <= Timestamps[j]

\* the collision window of one second, in ticks
Epsilon == TicksPerSecond

Distance(t1, t2) == IF t1 >= t2 THEN t1 - t2 ELSE t2 - t1

\* C3 (collision replace): the timeline never holds two entries whose
\* timestamps differ by at most one second; the later image replaces the
\* earlier one.
C3_CollisionReplace ==
    \A i, j \in 1..Len(generatedImages) :
        i < j => Distance(Timestamps[i], Timestamps[j]) > Epsilon

OnlyCurrentAudiobook ==
    \A i \in 1..Len(generatedImages) :
        generatedImages[i].audiobook_id = currentAudiobook

\* C4 (asset-switch invalidation): every image on the timeline belongs to
\* the audiobook shown (none when no audiobook is shown), and a request
\* made for another audiobook than the one shown leaves the timeline as it
\* is when it settles.
C4_AssetSwitchInvalidation ==
    /\ []OnlyCurrentAudiobook
    /\ [][\A r \in inflight :
            (r \notin inflight' /\ r.audiobook_id # currentAudiobook)
               => generatedImages' = generatedImages]_vars

\* a request of the first audiobook succeeded at the server after an image
\* of the second had been created, while the second is shown
C4_Witness ==
    /\ currentAudiobook = 2
    /\ \E i, j \in 1..Len(serverImages) :
         /\ i < j
         /\ serverImages[i].audiobook_id = 2
         /\ serverImages[j].audiobook_id = 1
    /\ Len(generatedImages) = 1

\* C5 (all-or-nothing on failure): a step in which a generation request
\* fails (the failure alert is raised) leaves the timeline and the images
\* stored by the server unchanged and does not reach onImageGenerated.
C5_AllOrNothingOnFailure ==
    [][alerts' # alerts =>
         UNCHANGED <<generatedImages, serverImages, onImageGeneratedCalls>>]_vars

\* a request has failed and the timeline holds an image
C5_Witness ==
    /\ alerts > 0
    /\ Len(generatedImages) > 0
    /\ GenerateRequests = {}

Clamp(t, d) == IF t < 0 THEN 0 ELSE IF t > d THEN d ELSE t

\* C6 (seek clamping): when audio.duration is known and seekTo is called
\* with a finite time, the position written to the element is
\* max(0, min(time, duration)), which lies in [0, duration].
C6_SeekClamping ==
    (seekLog.called /\ IsFinite(seekLog.duration) /\ IsFinite(seekLog.time))
      => /\ seekLog.after = Clamp(seekLog.time.val, seekLog.duration.val)
         /\ seekLog.after >= 0
         /\ seekLog.after <= seekLog.duration.val

\* seekTo(duration + 100 s) moved the element from elsewhere to its end
C6_Witness ==
    /\ seekLog.called
    /\ seekLog.time = Fin(AssetDuration + 100 * TicksPerSecond)
    /\ seekLog.duration = Fin(AssetDuration)
    /\ seekLog.before # AssetDuration
    /\ seekLog.after = AssetDuration

BadSeek(log) ==
    log.called /\ (isNaN(log.duration) \/ ~IsFinite(log.time))

\* C7 (seek is a no-op on bad input): a seekTo call made while
\* audio.duration is NaN, or with a time that is NaN or infinite, leaves the
\* element and the playback state unchanged.
C7_SeekNoOpOnBadInput ==
    [][(seekLog' # seekLog /\ BadSeek(seekLog'))
          => UNCHANGED <<playerVars, audioVars>>]_vars

CurrentRequests ==
    {r \in GenerateRequests : r.audiobook_id = currentAudiobook}

\* C8 (terminal outcome): every generateImage call is in flight or has ended
\* in exactly one of success and the failure alert; the step that settles a
\* request of the player shown lowers isGeneratingImage, so the flag is up
\* exactly while such a request is in flight and Generate is accepted
\* again afterwards.
C8_TerminalOutcome ==
    /\ [](apiCalls = Cardinality(GenerateRequests) + onImageGeneratedCalls
                       + alerts)
    /\ [](isGeneratingImage <=> CurrentRequests # {})
    /\ [][\A r \in CurrentRequests :
            r \notin inflight' =>
               /\ ~isGeneratingImage'
               /\ ~GenerateReturnsEarly' \/ currentTime' = 0]_vars

\* the first call failed and a second Generate on the same player was
\* accepted
C8_Witness ==
    /\ alerts = 1
    /\ onImageGeneratedCalls = 0
    /\ \E r \in CurrentRequests : r.call = 2 /\ r.audiobook_id = 1

\* C9 (no automatic retry): apiService.generateImage is called only by a
\* step that raises isGeneratingImage and puts one request in flight, one
\* call per step, and never by a step in which a request fails.
C9_NoAutomaticRetry ==
    [][/\ alerts' # alerts => apiCalls' = apiCalls
       /\ apiCalls' # apiCalls =>
            /\ apiCalls' = apiCalls + 1
            /\ ~isGeneratingImage
            /\ isGeneratingImage'
            /\ Cardinality(GenerateRequests') =
                 Cardinality(GenerateRequests) + 1]_vars

\* a request has failed, nothing is in flight, no further call was made and
\* the Generate button is enabled
C9_Witness ==
    /\ alerts = 1
    /\ apiCalls = 1
    /\ GenerateRequests = {}
    /\ Mounted
    /\ ~GenerateDisabled

\* C10 (timestamp snapshot): a request enters flight with the currentTime
\* state of that moment as its timestamp, and it keeps that timestamp for
\* as long as it is in flight.
C10_TimestampSnapshot ==
    [][/\ \A r \in GenerateRequests' :
            r \notin GenerateRequests => r.timestamp = currentTime
       /\ \A r \in GenerateRequests : \A q \in GenerateRequests' :
            q.call = r.call => q.timestamp = r.timestamp]_vars

\* a request is in flight whose timestamp is neither the position the
\* player shows now nor the position of the element
C10_Witness ==
    \E r \in CurrentRequests :
        /\ r.timestamp # currentTime
        /\ r.timestamp # audioCurrentTime
        /\ currentTime # audioCurrentTime

\* C11 (queueing): a Generate pressed for another moment while a request is
\* in flight is not lost; once no request of the player is in flight, none
\* of these presses is left without a request having been started for it.
C11_QueuedNotLost ==
    (Mounted /\ CurrentRequests = {}) =>
        \A g \in ignoredGenerates : SameMoment(g.timestamp, g.during)

PlayPauseAccepted == Mounted /\ ~isLoading /\ CanQueue(2)

SeekAccepted == Mounted /\ CanQueue(1)

\* C12 (playback decoupled from generation): whether the play/pause button
\* and a seek are accepted depends on the playback state only, not on a
\* request being in flight; with or without one, togglePlay flips isPlaying
\* and the element's paused flag and a seek moves only the element; neither
\* changes the requests in flight, the in-flight flag or the images.
C12_PlaybackDecoupled ==
    /\ [](ENABLED togglePlay <=> PlayPauseAccepted)
    /\ [](ENABLED handleProgressClick <=> SeekAccepted)
    /\ [][togglePlay =>
            /\ isPlaying' = ~isPlaying
            /\ audioPaused' = isPlaying
            /\ UNCHANGED <<currentTime, duration, isLoading, audioDuration>>
            /\ UNCHANGED <<netVars, isGeneratingImage, generatedImages>>]_vars
    /\ [][(handleProgressClick \/ handleImageClick) =>
            /\ audioCurrentTime' \in 0..AssetDuration
            /\ audioSeeking' = (audioSeeking \/ ~isNaN(audioDuration))
            /\ UNCHANGED <<isPlaying, currentTime, duration, isLoading,
                           audioDuration, audioPaused>>
            /\ UNCHANGED <<netVars, isGeneratingImage, generatedImages>>]_vars

\* a request is in flight while the listener has started playback and a
\* seek: the element plays and seeks, the request is still there
C12_Witness ==
    /\ CurrentRequests # {}
    /\ isGeneratingImage
    /\ isPlaying
    /\ ~audioPaused
    /\ audioSeeking
    /\ \E r \in CurrentRequests : r.timestamp # audioCurrentTime

PlayerAppears ==
    currentAudiobook' # currentAudiobook /\ currentAudiobook' # NoAudiobook

\* C13 (a new asset discards the state of the previous one): the step that
\* shows the player of an audiobook gives it the initial position, duration,
\* playing flag and an empty image list on a fresh element; until that
\* element has loaded its own metadata the position and duration shown stay
\* initial, and the image list never holds an image of another audiobook.
C13_NewAssetDiscardsState ==
    /\ [][PlayerAppears =>
            /\ currentTime' = 0
            /\ duration' = Fin(0)
            /\ ~isPlaying'
            /\ ~isGeneratingImage'
            /\ generatedImages' = <<>>
            /\ audioCurrentTime' = 0
            /\ isNaN(audioDuration')
            /\ audioPaused'
            /\ pendingEvents' = <<"loadstart">>]_vars
    /\ [](isNaN(audioDuration) => currentTime = 0 /\ duration = Fin(0))
    /\ [](\A i \in 1..Len(generatedImages) :
            generatedImages[i].audiobook_id = currentAudiobook)

\* the second audiobook is shown and has not loaded yet; the first one had
\* been played, has an image and still has a request in flight
C13_Witness ==
    /\ currentAudiobook = 2
    /\ isNaN(audioDuration)
    /\ \E i \in 1..Len(serverImages) :
         serverImages[i].audiobook_id = 1
           /\ serverImages[i].timestamp_seconds > 0
    /\ \E r \in GenerateRequests : r.audiobook_id = 1

Pending(e) == \E i \in 1..Len(pendingEvents) : pendingEvents[i] = e

\* the seeking event of every seek started has been delivered and the
\* seeked event of the last one has not
SeekReported ==
    /\ Mounted
    /\ ~Pending("seeking")
    /\ audioSeeking \/ Pending("seeked")

\* C14 (seeking status): from the delivery of the seeking event until the
\* delivery of seeked, isLoading is true; no other media event clears it.
C14_SeekingUntilSeeked == SeekReported => isLoading

\* playback ran to the end of the audio and every event of that, the ended
\* event last, has been delivered
Ended ==
    /\ Mounted
    /\ AtEnd
    /\ audioPaused
    /\ ~audioSeeking
    /\ ~isPlaying
    /\ pendingEvents = <<>>

\* C15 (Ended is terminal): a press of the play/pause button in the Ended
\* status, with no seek requested and no audiobook loaded, leaves the
\* tracker not playing and the element paused at its end.
C15_EndedIsTerminal ==
    [][(Ended /\ togglePlay) =>
          /\ ~isPlaying'
          /\ audioPaused'
          /\ audioCurrentTime' = audioCurrentTime]_vars

\* C16 (unsubscription on teardown): while no player is shown no handler is
\* registered on any element, and an event delivered then changes no state
\* of the tracker; while a player is shown the handlers are registered on
\* the <audio> element it renders.
C16_UnsubscribedOnTeardown ==
    /\ [](~Mounted => listeners = NoElement)
    /\ [](Mounted => listeners = AudioElement)
    /\ [][(~Mounted /\ ~Mounted') => UNCHANGED playerVars]_vars

\* the second player has been unmounted while its element was playing and
\* had events queued
C16_Witness ==
    /\ ~Mounted
    /\ nextAudiobookId > 2
    /\ Len(pendingEvents) >= 2
    /\ listeners = NoElement

\* the audio has loaded and nothing but the timestamp stands in the way of
\* a Generate
GenerateReady ==
    /\ Mounted
    /\ IsFinite(audioDuration)
    /\ duration = audioDuration
    /\ pendingEvents = <<>>
    /\ ~isLoading
    /\ ~isGeneratingImage
    /\ apiCalls < MaxCalls

\* C17 (timestamp validation): a Generate at any position t >= 0, t = 0
\* included, is accepted and starts a request.
C17_ZeroTimestampAccepted ==
    (GenerateReady /\ currentTime >= 0) => ENABLED handleGenerateImage

Shown(images) == {images[i] : i \in 1..Len(images)}

\* C18 (a generated image is never lost): while the player of an audiobook
\* stays mounted, no step removes an image from generatedImages.
C18_ImageNeverLost ==
    [][(Mounted /\ currentAudiobook' = currentAudiobook) =>
          Shown(generatedImages) \subseteq Shown(generatedImages')]_vars

\* C19 (the playing flag tracks the device): once every event the element
\* has queued is delivered, isPlaying is true exactly when the element is
\* not paused.
C19_PlayingTracksDevice ==
    (Mounted /\ pendingEvents = <<>>) => (isPlaying <=> ~audioPaused)

UploadsInFlight == {u \in uploads : u.inst = uploadInst}

\* C20 (upload in-progress flag): while the upload form is shown,
\* isUploading is true exactly when a call of its uploadAudiobook is in
\* flight, after failures and with overlapping calls too.
C20_UploadingFlag ==
    UploadShown => (isUploading <=> UploadsInFlight # {})

WrongFileType(file) ==
    /\ \A i \in 1..(Len(file.type) - 2) :
         SubSeq(file.type, i, i + 2) # <<"m", "p", "4">>
    /\ \/ Len(file.name) < 4
       \/ ToLowerCase(SubSeq(file.name, Len(file.name) - 3, Len(file.name)))
            # <<".", "m", "4", "a">>

\* C21 (a file of the wrong type is rejected): a call of uploadAudiobook
\* whose file has a type without 'mp4' and a name that, in lower case, does
\* not end in '.m4a' sends no request, returns null, sets the invalid file
\* type message and leaves isUploading false; the page keeps showing the
\* upload form.
C21_WrongFileTypeRejected ==
    [][(uploadCalls' # uploadCalls /\ WrongFileType(uploadLog'.file)) =>
          /\ uploads' = uploads
          /\ uploadLog'.result = "null"
          /\ error' = InvalidFileType
          /\ ~isUploading'
          /\ currentAudiobook' = NoAudiobook
          /\ UNCHANGED <<pageVars, playerVars>>]_vars

\* the form was submitted with a file named a.mp3 that the browser reports as
\* audio/x-m4a: nothing is in flight and the message is shown
C21_Witness ==
    /\ uploadLog.call > 0
    /\ uploadLog.file.type = <<"a", "u", "d", "i", "o", "/", "x", "-", "m", "4", "a">>
    /\ uploadLog.file.name = <<"a", ".", "m", "p", "3">>
    /\ uploadLog.result = "null"
    /\ UploadShown
    /\ uploads = {}
    /\ error = InvalidFileType

\* C22 (marker navigation): a click on an image marker leads to exactly one
\* seekTo call, with the image's timestamp_seconds as its argument, and
\* moves the element as that one call does; handleProgressClick does not run
\* for the same click.
C22_MarkerClickSeeksOnce ==
    /\ [](clickLog.clicked => clickLog.seeks = <<Fin(clickLog.timestamp)>>)
    /\ [][clickLog' # clickLog =>
            /\ \E i \in 1..Len(generatedImages) :
                  generatedImages[i].timestamp_seconds = clickLog'.timestamp
            /\ Len(pendingEvents') <= Len(pendingEvents) + 1
            /\ IF pendingEvents' # pendingEvents
               THEN /\ pendingEvents' = Append(pendingEvents, "seeking")
                    /\ audioSeeking'
                    /\ audioCurrentTime' =
                         Clamp(clickLog'.timestamp, audioDuration.val)
               ELSE UNCHANGED <<audioCurrentTime, audioSeeking>>
            /\ UNCHANGED <<playerVars, netVars>>]_vars

\* the marker of an image was clicked after playback had moved on: the
\* element is back at the image's timestamp and seeking
C22_Witness ==
    /\ clickLog.clicked
    /\ clickLog.timestamp > 0
    /\ currentTime > clickLog.timestamp
    /\ audioCurrentTime = clickLog.timestamp
    /\ audioSeeking

====
